---- MODULE Spec2Model ----
(***************************************************************************)
(* State-machine model of IRIS/import_images.py: the two decoders          *)
(* decode_data_Ke (five channels per cycle, registration against cycle 0)  *)
(* and decode_data_Chen (one channel per cycle, no registration).          *)
(*                                                                         *)
(* One run of one decoder is modelled.  Init picks the decoder and the     *)
(* argument f_cycles; each action is one block of the function body, in    *)
(* program order, with pc holding the position.  The OpenCV primitives     *)
(* (imread, imwrite, add, addWeighted, warpAffine) are operators that      *)
(* compute what the primitive does on the abstract images below;           *)
(* register_cycles lives in IRIS/register_images.py, which is not part of  *)
(* the sources at hand, and is modelled from its documented contract.      *)
(*                                                                         *)
(* An image is a record: kind ("img", "none" = Python None, "empty" =      *)
(* array([], dtype=uint8), "error" = the primitive raised), the directory  *)
(* and file it was decoded from, its shape <<rows, cols>>, one             *)
(* representative pixel intensity, and the transform it was resampled      *)
(* with ("raw" when it never went through warpAffine).                     *)
(***************************************************************************)
EXTENDS Integers, Sequences, FiniteSets, TLC

VARIABLES variant, f_cycles, pc, cycle_id,
          f_cycle_stack, f_std_img, reg_ref,
          channel_A, channel_T, channel_C, channel_G, channel_0,
          merged_img, trans_mat, debug_img,
          result, exit_code, stderr,
          imreadLog, regLog, warpLog, imwriteLog, refAssigns, stdAssigns

vars == <<variant, f_cycles, pc, cycle_id,
          f_cycle_stack, f_std_img, reg_ref,
          channel_A, channel_T, channel_C, channel_G, channel_0,
          merged_img, trans_mat, debug_img,
          result, exit_code, stderr,
          imreadLog, regLog, warpLog, imwriteLog, refAssigns, stdAssigns>>

(***************************************************************************)
(* Bounds and the inputs of the model.                                     *)
(***************************************************************************)
MaxCycles == 3

Dirs == {"d1", "d2"}

KeFiles == {"Y5.tif", "FAM.tif", "TXR.tif", "Y3.tif", "DAPI.tif"}

Transforms == {"M1", "M2"}

\* What the image files of a cycle directory hold: the shape <<rows, cols>>
\* shared by the files of the directory and the intensity of each file.
DiskShape(dir) ==
    CASE dir = "d1" -> <<2, 3>>
      [] OTHER      -> <<3, 2>>

DiskPix(dir, file) ==
    CASE dir = "d1" /\ file = "Y5.tif"   -> 100
      [] dir = "d1" /\ file = "FAM.tif"  -> 90
      [] dir = "d1" /\ file = "TXR.tif"  -> 80
      [] dir = "d1" /\ file = "Y3.tif"   -> 70
      [] dir = "d1" /\ file = "DAPI.tif" -> 10
      [] dir = "d1"                      -> 33
      [] dir = "d2" /\ file = "Y5.tif"   -> 10
      [] dir = "d2" /\ file = "FAM.tif"  -> 20
      [] dir = "d2" /\ file = "TXR.tif"  -> 30
      [] dir = "d2" /\ file = "Y3.tif"   -> 40
      [] dir = "d2" /\ file = "DAPI.tif" -> 200
      [] OTHER                           -> 77

(***************************************************************************)
(* Images and the OpenCV primitives.                                       *)
(***************************************************************************)
Image(dir, file, shape, pix, xf) ==
    [kind |-> "img", dir |-> dir, file |-> file, shape |-> shape, pix |-> pix, xf |-> xf]

NoneImg ==
    [kind |-> "none", dir |-> "", file |-> "", shape |-> <<0, 0>>, pix |-> 0, xf |-> "raw"]

EmptyArray ==
    [kind |-> "empty", dir |-> "", file |-> "", shape |-> <<0, 0>>, pix |-> 0, xf |-> "raw"]

CvError ==
    [kind |-> "error", dir |-> "", file |-> "", shape |-> <<0, 0>>, pix |-> 0, xf |-> "raw"]

\* numpy's img.shape[0] (rows) and img.shape[1] (columns)
Shape0(img) == img.shape[1]

Shape1(img) == img.shape[2]

Saturate(v) == IF v > 255 THEN 255 ELSE IF v < 0 THEN 0 ELSE v

\* imread(path, IMREAD_GRAYSCALE): the decoded image, or None when the file
\* cannot be read or decoded (readable is the file system's answer).
imread(dir, file, readable) ==
    IF readable THEN Image(dir, file, DiskShape(dir), DiskPix(dir, file), "raw")
    ELSE NoneImg

\* cv2.add: saturating per-pixel sum.  None converts to an empty matrix: two
\* empty operands give an empty result (None), one empty operand or two
\* operands of different size make the primitive raise.
add(src1, src2) ==
    IF src1.kind = "error" \/ src2.kind = "error" THEN CvError
    ELSE IF src1.kind = "none" /\ src2.kind = "none" THEN NoneImg
    ELSE IF src1.kind # "img" \/ src2.kind # "img" THEN CvError
    ELSE IF src1.shape # src2.shape THEN CvError
    ELSE Image(src1.dir, "add", src1.shape, Saturate(src1.pix + src2.pix), "raw")

\* cv2.addWeighted(src1, alpha, src2, beta, gamma) with the weights in tenths:
\* saturate(round(alpha * src1 + beta * src2 + gamma)).
addWeighted(src1, alphaTenths, src2, betaTenths, gamma) ==
    IF src1.kind = "error" \/ src2.kind = "error" THEN CvError
    ELSE IF src1.kind = "none" /\ src2.kind = "none" THEN NoneImg
    ELSE IF src1.kind # "img" \/ src2.kind # "img" THEN CvError
    ELSE IF src1.shape # src2.shape THEN CvError
    ELSE Image(src1.dir, "addWeighted", src1.shape,
               Saturate((alphaTenths * src1.pix + betaTenths * src2.pix
                         + 10 * gamma + 5) \div 10), "raw")

\* cv2.warpAffine(src, M, dsize), dsize = (width, height): src resampled with
\* M into an image of height rows and width columns; raises on an empty src.
warpAffine(src, M, dsize) ==
    IF src.kind # "img" THEN CvError
    ELSE Image(src.dir, src.file, <<dsize[2], dsize[1]>>, src.pix, M)

\* cv2.imwrite(name, img): raises on an empty image; otherwise answers
\* whether the file was written (written is the file system's answer).
imwrite(img, written) ==
    IF img.kind # "img" THEN "error"
    ELSE IF written THEN "true" ELSE "false"

\* register_cycles(reference, target, method): a transform mapping target onto
\* reference, or a failure; both images must be non-empty.
register_cycles(reference, target, method) ==
    IF reference.kind # "img" \/ target.kind # "img" THEN {"fail"}
    ELSE Transforms \cup {"fail"}

(***************************************************************************)
(* The initial state: the decoder and its argument are chosen, nothing has *)
(* run.                                                                    *)
(***************************************************************************)
CycleLists == UNION {[1..n -> Dirs] : n \in 0..MaxCycles}

Init ==
    /\ variant \in {"Ke", "Chen"}
    /\ f_cycles \in CycleLists
    /\ pc = (IF variant = "Ke" THEN "Ke_check" ELSE "Chen_check")
    /\ cycle_id = 0
    /\ f_cycle_stack = <<>>
    /\ f_std_img = EmptyArray
    /\ reg_ref = EmptyArray
    /\ channel_A = NoneImg
    /\ channel_T = NoneImg
    /\ channel_C = NoneImg
    /\ channel_G = NoneImg
    /\ channel_0 = NoneImg
    /\ merged_img = NoneImg
    /\ trans_mat = "unset"
    /\ debug_img = NoneImg
    /\ result = <<>>
    /\ exit_code = 0
    /\ stderr = <<>>
    /\ imreadLog = <<>>
    /\ regLog = <<>>
    /\ warpLog = <<>>
    /\ imwriteLog = <<>>
    /\ refAssigns = 0
    /\ stdAssigns = 0

locals == <<channel_A, channel_T, channel_C, channel_G, channel_0,
            merged_img, trans_mat, debug_img>>

outputs == <<result, exit_code, stderr>>

logs == <<imreadLog, regLog, warpLog, imwriteLog, refAssigns, stdAssigns>>

CurrentDir == f_cycles[cycle_id + 1]

(***************************************************************************)
(* decode_data_Ke                                                          *)
(***************************************************************************)
\* if len(f_cycles) < 1
Ke_NoCycles_Never(cycles) == Len(cycles) < 0

Ke_NoCycles(cycles) == Len(cycles) < 1

\* lines 36-44: the guard, then the initialisation of the stack, the
\* composite and the reference
Ke_Check ==
    /\ pc = "Ke_check"
    /\ IF Ke_NoCycles(f_cycles)
       THEN /\ stderr' = Append(stderr, "ERROR CYCLES")
            /\ exit_code' = 1
            /\ pc' = "exited"
            /\ UNCHANGED <<f_cycle_stack, f_std_img, reg_ref>>
       ELSE /\ f_cycle_stack' = <<>>
            /\ f_std_img' = EmptyArray
            /\ reg_ref' = EmptyArray
            /\ pc' = (IF Len(f_cycles) > 0 THEN "Ke_load" ELSE "Ke_return")
            /\ UNCHANGED <<stderr, exit_code>>
    /\ UNCHANGED <<variant, f_cycles, cycle_id, locals, result, logs>>

\* lines 52-56: the five imread calls of the current cycle
Ke_Load ==
    /\ pc = "Ke_load"
    /\ \E readable \in SUBSET KeFiles :
          /\ channel_A' = imread(CurrentDir, "Y5.tif", "Y5.tif" \in readable)
          /\ channel_T' = imread(CurrentDir, "FAM.tif", "FAM.tif" \in readable)
          /\ channel_C' = imread(CurrentDir, "TXR.tif", "TXR.tif" \in readable)
          /\ channel_G' = imread(CurrentDir, "Y3.tif", "Y3.tif" \in readable)
          /\ channel_0' = imread(CurrentDir, "DAPI.tif", "DAPI.tif" \in readable)
    /\ imreadLog' = imreadLog \o <<<<CurrentDir, "Y5.tif">>, <<CurrentDir, "FAM.tif">>,
                                   <<CurrentDir, "TXR.tif">>, <<CurrentDir, "Y3.tif">>,
                                   <<CurrentDir, "DAPI.tif">>>>
    /\ pc' = "Ke_merge"
    /\ UNCHANGED <<variant, f_cycles, cycle_id, f_cycle_stack, f_std_img, reg_ref,
                   merged_img, trans_mat, debug_img, outputs,
                   regLog, warpLog, imwriteLog, refAssigns, stdAssigns>>

\* lines 66-91: the merged image; on the first cycle the reference and the
\* output composite
Ke_Merge_EveryCycle ==
    /\ pc = "Ke_merge"
    /\ merged_img' = channel_0
    /\ LET foreground == add(add(add(channel_A, channel_T), channel_C), channel_G)
           background == channel_0
           std        == addWeighted(foreground, 4, background, 6, 0)
       IN  /\ reg_ref' = channel_0
           /\ refAssigns' = refAssigns + 1
           /\ IF std.kind = "error"
              THEN /\ pc' = "raised"
                   /\ UNCHANGED <<f_std_img, stdAssigns>>
              ELSE /\ f_std_img' = std
                   /\ stdAssigns' = stdAssigns + 1
                   /\ pc' = "Ke_register"
    /\ UNCHANGED <<variant, f_cycles, cycle_id, f_cycle_stack,
                   channel_A, channel_T, channel_C, channel_G, channel_0,
                   trans_mat, debug_img, outputs,
                   imreadLog, regLog, warpLog, imwriteLog>>

Ke_Merge ==
    /\ pc = "Ke_merge"
    /\ merged_img' = channel_0
    /\ IF cycle_id = 0
       THEN LET foreground == add(add(add(channel_A, channel_T), channel_C), channel_G)
                background == channel_0
                std        == addWeighted(foreground, 4, background, 6, 0)
            IN  /\ reg_ref' = channel_0
                /\ refAssigns' = refAssigns + 1
                /\ IF std.kind = "error"
                   THEN /\ pc' = "raised"
                        /\ UNCHANGED <<f_std_img, stdAssigns>>
                   ELSE /\ f_std_img' = std
                        /\ stdAssigns' = stdAssigns + 1
                        /\ pc' = "Ke_register"
       ELSE /\ pc' = "Ke_register"
            /\ UNCHANGED <<reg_ref, refAssigns, f_std_img, stdAssigns>>
    /\ UNCHANGED <<variant, f_cycles, cycle_id, f_cycle_stack,
                   channel_A, channel_T, channel_C, channel_G, channel_0,
                   trans_mat, debug_img, outputs,
                   imreadLog, regLog, warpLog, imwriteLog>>

\* line 93: trans_mat = register_cycles(reg_ref, merged_img, 'ORB')
Ke_Register_SkipFirst ==
    /\ pc = "Ke_register"
    /\ IF cycle_id = 0
       THEN /\ trans_mat' = "identity"
            /\ pc' = "Ke_debug"
            /\ UNCHANGED regLog
       ELSE \E t \in register_cycles(reg_ref, merged_img, "ORB") :
               /\ regLog' = Append(regLog, [cycle |-> cycle_id, reference |-> reg_ref,
                                            target |-> merged_img, method |-> "ORB",
                                            outcome |-> t])
               /\ IF t = "fail"
                  THEN pc' = "raised" /\ UNCHANGED trans_mat
                  ELSE pc' = "Ke_debug" /\ trans_mat' = t
    /\ UNCHANGED <<variant, f_cycles, cycle_id, f_cycle_stack, f_std_img, reg_ref,
                   channel_A, channel_T, channel_C, channel_G, channel_0,
                   merged_img, debug_img, outputs,
                   imreadLog, warpLog, imwriteLog, refAssigns, stdAssigns>>

Ke_Register ==
    /\ pc = "Ke_register"
    /\ \E t \in register_cycles(reg_ref, merged_img, "ORB") :
          /\ regLog' = Append(regLog, [cycle |-> cycle_id, reference |-> reg_ref,
                                       target |-> merged_img, method |-> "ORB",
                                       outcome |-> t])
          /\ IF t = "fail"
             THEN pc' = "raised" /\ UNCHANGED trans_mat
             ELSE pc' = "Ke_debug" /\ trans_mat' = t
    /\ UNCHANGED <<variant, f_cycles, cycle_id, f_cycle_stack, f_std_img, reg_ref,
                   channel_A, channel_T, channel_C, channel_G, channel_0,
                   merged_img, debug_img, outputs,
                   imreadLog, warpLog, imwriteLog, refAssigns, stdAssigns>>

\* the output size of every warp: (reg_ref.shape[1], reg_ref.shape[0])
Ke_dsize_Swapped(ref) == <<Shape0(ref), Shape1(ref)>>

Ke_dsize(ref) == <<Shape1(ref), Shape0(ref)>>

\* what the function does with the answer of an imwrite call: an exception
\* propagates, the returned flag is dropped
AfterImwrite_Checked(answer, next) == IF answer = "true" THEN next ELSE "raised"

AfterImwrite_Swallowed(answer, next) == next

AfterImwrite(answer, next) == IF answer = "error" THEN "raised" ELSE next

\* lines 98-102: the registration check image and its file
Ke_Debug ==
    /\ pc = "Ke_debug"
    /\ LET warped == warpAffine(merged_img, trans_mat, Ke_dsize(reg_ref))
       IN  /\ warpLog' = Append(warpLog, [cycle |-> cycle_id, file |-> merged_img.file,
                                          M |-> trans_mat, dsize |-> Ke_dsize(reg_ref)])
           /\ IF warped.kind = "error"
              THEN /\ pc' = "raised"
                   /\ UNCHANGED <<debug_img, imwriteLog>>
              ELSE /\ debug_img' = warped
                   /\ \E written \in BOOLEAN :
                         /\ imwriteLog' = Append(imwriteLog,
                                [cycle |-> cycle_id,
                                 name |-> <<"debug.cycle_", cycle_id + 1, ".reg.tif">>,
                                 img |-> warped,
                                 answer |-> imwrite(warped, written)])
                         /\ pc' = AfterImwrite(imwrite(warped, written), "Ke_align")
    /\ UNCHANGED <<variant, f_cycles, cycle_id, f_cycle_stack, f_std_img, reg_ref,
                   channel_A, channel_T, channel_C, channel_G, channel_0,
                   merged_img, trans_mat, outputs,
                   imreadLog, regLog, refAssigns, stdAssigns>>

\* lines 110-113: adj_img_mats after its four appends
Ke_adj_img_mats_Reordered(a, t, c, g) == <<a, c, t, g>>

Ke_adj_img_mats(a, t, c, g) == <<a, t, c, g>>

\* line 119 (and line 182): f_cycle_stack.append(adj_img_mats)
StackAppend_Front(stack, entry) == <<entry>> \o stack

StackAppend(stack, entry) == Append(stack, entry)

\* the for statement: the pc after the body of cycle id
NextIteration(id, loadPc, returnPc) ==
    IF id + 1 < Len(f_cycles) THEN loadPc ELSE returnPc

\* lines 105-119: the four warps, the cycle's entry, the append, and the step
\* of the for loop to the next cycle
Ke_Align ==
    /\ pc = "Ke_align"
    /\ LET dsize == Ke_dsize(reg_ref)
           a == warpAffine(channel_A, trans_mat, dsize)
           t == warpAffine(channel_T, trans_mat, dsize)
           c == warpAffine(channel_C, trans_mat, dsize)
           g == warpAffine(channel_G, trans_mat, dsize)
           raisedAt == IF a.kind = "error" THEN 1
                       ELSE IF t.kind = "error" THEN 2
                       ELSE IF c.kind = "error" THEN 3
                       ELSE IF g.kind = "error" THEN 4 ELSE 5
           calls == <<[cycle |-> cycle_id, file |-> "Y5.tif", M |-> trans_mat, dsize |-> dsize],
                      [cycle |-> cycle_id, file |-> "FAM.tif", M |-> trans_mat, dsize |-> dsize],
                      [cycle |-> cycle_id, file |-> "TXR.tif", M |-> trans_mat, dsize |-> dsize],
                      [cycle |-> cycle_id, file |-> "Y3.tif", M |-> trans_mat, dsize |-> dsize]>>
       IN  IF raisedAt <= 4
           THEN /\ warpLog' = warpLog \o SubSeq(calls, 1, raisedAt)
                /\ channel_A' = (IF raisedAt > 1 THEN a ELSE channel_A)
                /\ channel_T' = (IF raisedAt > 2 THEN t ELSE channel_T)
                /\ channel_C' = (IF raisedAt > 3 THEN c ELSE channel_C)
                /\ pc' = "raised"
                /\ UNCHANGED <<channel_G, f_cycle_stack, cycle_id>>
           ELSE /\ warpLog' = warpLog \o calls
                /\ channel_A' = a
                /\ channel_T' = t
                /\ channel_C' = c
                /\ channel_G' = g
                /\ f_cycle_stack' = StackAppend(f_cycle_stack, Ke_adj_img_mats(a, t, c, g))
                /\ pc' = NextIteration(cycle_id, "Ke_load", "Ke_return")
                /\ cycle_id' = (IF cycle_id + 1 < Len(f_cycles) THEN cycle_id + 1
                                ELSE cycle_id)
    /\ UNCHANGED <<variant, f_cycles, f_std_img, reg_ref, channel_0,
                   merged_img, trans_mat, debug_img, outputs,
                   imreadLog, regLog, imwriteLog, refAssigns, stdAssigns>>

\* line 122: return f_cycle_stack, f_std_img
Ke_Return ==
    /\ pc = "Ke_return"
    /\ result' = <<f_cycle_stack, f_std_img>>
    /\ pc' = "done"
    /\ UNCHANGED <<variant, f_cycles, cycle_id, f_cycle_stack, f_std_img, reg_ref,
                   locals, exit_code, stderr, logs>>

(***************************************************************************)
(* decode_data_Chen                                                        *)
(***************************************************************************)
\* if len(f_cycles) < 1
Chen_NoCycles(cycles) == Len(cycles) < 1

\* lines 135-142
Chen_Check ==
    /\ pc = "Chen_check"
    /\ IF Chen_NoCycles(f_cycles)
       THEN /\ stderr' = Append(stderr, "ERROR CYCLES")
            /\ exit_code' = 1
            /\ pc' = "exited"
            /\ UNCHANGED <<f_cycle_stack, f_std_img>>
       ELSE /\ f_cycle_stack' = <<>>
            /\ f_std_img' = EmptyArray
            /\ pc' = (IF Len(f_cycles) > 0 THEN "Chen_load" ELSE "Chen_return")
            /\ UNCHANGED <<stderr, exit_code>>
    /\ UNCHANGED <<variant, f_cycles, cycle_id, reg_ref, locals, result, logs>>

\* line 150: the imread call of the current cycle
Chen_Load ==
    /\ pc = "Chen_load"
    /\ \E readable \in BOOLEAN :
          channel_0' = imread(CurrentDir, "STORM.tif", readable)
    /\ imreadLog' = Append(imreadLog, <<CurrentDir, "STORM.tif">>)
    /\ pc' = "Chen_merge"
    /\ UNCHANGED <<variant, f_cycles, cycle_id, f_cycle_stack, f_std_img, reg_ref,
                   channel_A, channel_T, channel_C, channel_G,
                   merged_img, trans_mat, debug_img, outputs,
                   regLog, warpLog, imwriteLog, refAssigns, stdAssigns>>

\* lines 159-165: the merged image; on the first cycle the output composite
Chen_Merge_EveryCycle ==
    /\ pc = "Chen_merge"
    /\ merged_img' = channel_0
    /\ f_std_img' = channel_0
    /\ stdAssigns' = stdAssigns + 1
    /\ pc' = "Chen_debug"
    /\ UNCHANGED <<variant, f_cycles, cycle_id, f_cycle_stack, reg_ref,
                   channel_A, channel_T, channel_C, channel_G, channel_0,
                   trans_mat, debug_img, outputs,
                   imreadLog, regLog, warpLog, imwriteLog, refAssigns>>

Chen_Merge ==
    /\ pc = "Chen_merge"
    /\ merged_img' = channel_0
    /\ IF cycle_id = 0
       THEN /\ f_std_img' = channel_0
            /\ stdAssigns' = stdAssigns + 1
       ELSE UNCHANGED <<f_std_img, stdAssigns>>
    /\ pc' = "Chen_debug"
    /\ UNCHANGED <<variant, f_cycles, cycle_id, f_cycle_stack, reg_ref,
                   channel_A, channel_T, channel_C, channel_G, channel_0,
                   trans_mat, debug_img, outputs,
                   imreadLog, regLog, warpLog, imwriteLog, refAssigns>>

\* line 173: the merge check image
Chen_Debug ==
    /\ pc = "Chen_debug"
    /\ \E written \in BOOLEAN :
          /\ imwriteLog' = Append(imwriteLog,
                 [cycle |-> cycle_id,
                  name |-> <<"debug.cycle_", cycle_id + 1, ".tif">>,
                  img |-> merged_img,
                  answer |-> imwrite(merged_img, written)])
          /\ pc' = AfterImwrite(imwrite(merged_img, written), "Chen_append")
    /\ UNCHANGED <<variant, f_cycles, cycle_id, f_cycle_stack, f_std_img, reg_ref,
                   locals, outputs, imreadLog, regLog, warpLog, refAssigns, stdAssigns>>

\* line 176: adj_img_mats after its append
Chen_adj_img_mats(c) == <<c>>

\* lines 176-182: the cycle's entry, the append, and the step of the for loop
Chen_Append ==
    /\ pc = "Chen_append"
    /\ f_cycle_stack' = StackAppend(f_cycle_stack, Chen_adj_img_mats(channel_0))
    /\ pc' = NextIteration(cycle_id, "Chen_load", "Chen_return")
    /\ cycle_id' = (IF cycle_id + 1 < Len(f_cycles) THEN cycle_id + 1 ELSE cycle_id)
    /\ UNCHANGED <<variant, f_cycles, f_std_img, reg_ref, locals, outputs, logs>>

\* line 185: return f_cycle_stack, f_std_img
Chen_Return ==
    /\ pc = "Chen_return"
    /\ result' = <<f_cycle_stack, f_std_img>>
    /\ pc' = "done"
    /\ UNCHANGED <<variant, f_cycles, cycle_id, f_cycle_stack, f_std_img, reg_ref,
                   locals, exit_code, stderr, logs>>

Next ==
    \/ Ke_Check
    \/ Ke_Load
    \/ Ke_Merge
    \/ Ke_Register
    \/ Ke_Debug
    \/ Ke_Align
    \/ Ke_Return
    \/ Chen_Check
    \/ Chen_Load
    \/ Chen_Merge
    \/ Chen_Debug
    \/ Chen_Append
    \/ Chen_Return

Spec == Init /\ [][Next]_vars

(***************************************************************************)
(* Properties.                                                             *)
(***************************************************************************)
Last(s) == s[Len(s)]

Returned == pc = "done"

Min(a, b) == IF a < b THEN a ELSE b

\* the image a readable file of a cycle directory decodes to
Loaded(dir, file) == Image(dir, file, DiskShape(dir), DiskPix(dir, file), "raw")

\* C1: in both decoders the stack holds, at every moment, one entry per
\* cycle already processed, entry i built from f_cycles[i], and a run that
\* returns hands back a stack with exactly one entry per input cycle.
C1_StackFollowsInput ==
    /\ Len(f_cycle_stack) <= Len(f_cycles)
    /\ \A i \in 1..Len(f_cycle_stack) :
          /\ Len(f_cycle_stack[i]) >= 1
          /\ \A k \in 1..Len(f_cycle_stack[i]) : f_cycle_stack[i][k].dir = f_cycles[i]
    /\ Returned => /\ result[1] = f_cycle_stack
                   /\ Len(result[1]) = Len(f_cycles)
                   /\ Len(f_cycles) >= 1

C1_Witness ==
    /\ Returned
    /\ Len(f_cycles) = 3
    /\ f_cycles[1] # f_cycles[2]
    /\ f_cycles[2] # f_cycles[3]

\* C2: on an empty cycle list both decoders print the error and exit with
\* status 1 before any imread, register_cycles or imwrite call, and never
\* return a result.
C2_EmptyListExits ==
    Len(f_cycles) = 0 =>
        /\ pc \in {"Ke_check", "Chen_check", "exited"}
        /\ imreadLog = <<>> /\ regLog = <<>> /\ imwriteLog = <<>> /\ warpLog = <<>>
        /\ result = <<>>
        /\ pc = "exited" => (exit_code = 1 /\ stderr = <<"ERROR CYCLES">>)

C2_Witness == Len(f_cycles) = 0 /\ pc = "exited" /\ exit_code # 0

\* C3 as claimed: decode_data_Ke issues no registration call for cycle 0,
\* so a run over n cycles that returns has issued n - 1 calls.
C3_NoRegistrationForCycle0 ==
    variant = "Ke" =>
        /\ \A i \in 1..Len(regLog) : regLog[i].cycle > 0
        /\ Returned => Len(regLog) = Len(f_cycles) - 1

\* C3 as amended: decode_data_Ke calls register_cycles once in every cycle,
\* cycle 0 included (there with cycle 0's merged image as reference and as
\* target); the transform of a cycle is what that call answered, and a run
\* over n cycles that returns has issued n calls.
C3_RegistrationEveryCycle ==
    variant = "Ke" =>
        /\ \A i \in 1..Len(regLog) : regLog[i].cycle = i - 1
        /\ Len(regLog) >= 1 => regLog[1].reference = regLog[1].target
        /\ pc \in {"Ke_debug", "Ke_align"} =>
              /\ Len(regLog) = cycle_id + 1
              /\ trans_mat = Last(regLog).outcome
        /\ Returned => Len(regLog) = Len(f_cycles)

C3_Witness ==
    /\ variant = "Ke"
    /\ pc = "Ke_debug"
    /\ cycle_id = 0
    /\ Len(regLog) = 1
    /\ regLog[1].cycle = 0

\* C4: in decode_data_Ke the reference is assigned once, and at every
\* registration call the reference argument is a non-empty image equal to
\* cycle 0's merged image.
C4_ReferenceFixedNonEmpty ==
    variant = "Ke" =>
        /\ refAssigns <= 1
        /\ \A i \in 1..Len(regLog) :
              /\ regLog[i].reference.kind = "img"
              /\ regLog[i].reference = regLog[1].target
              /\ refAssigns = 1

\* C5: in decode_data_Ke every image of stack entry i was resampled with the
\* transform register_cycles answered for cycle i, and has the reference's
\* rows and columns; no image of an entry is left raw.
C5_OneTransformPerCycle ==
    variant = "Ke" =>
        \A i \in 1..Len(f_cycle_stack) :
            /\ i <= Len(regLog)
            /\ \A k \in 1..Len(f_cycle_stack[i]) :
                  /\ f_cycle_stack[i][k].xf = regLog[i].outcome
                  /\ f_cycle_stack[i][k].xf \in Transforms
                  /\ f_cycle_stack[i][k].shape = reg_ref.shape
            /\ \A j \in 1..Len(warpLog) :
                  warpLog[j].cycle = i - 1 =>
                      /\ warpLog[j].M = regLog[i].outcome
                      /\ warpLog[j].dsize = <<reg_ref.shape[2], reg_ref.shape[1]>>

C5_Witness ==
    /\ variant = "Ke"
    /\ Len(f_cycle_stack) >= 2
    /\ f_cycles[1] # f_cycles[2]
    /\ regLog[1].outcome # regLog[2].outcome
    /\ reg_ref.shape[1] # reg_ref.shape[2]

\* C6: in decode_data_Ke every stack entry holds four images, decoded from
\* Y5.tif, FAM.tif, TXR.tif, Y3.tif of its cycle in this order; DAPI.tif is
\* in no entry.
C6_FourChannelsInOrder ==
    variant = "Ke" =>
        \A i \in 1..Len(f_cycle_stack) :
            /\ Len(f_cycle_stack[i]) = 4
            /\ f_cycle_stack[i][1].file = "Y5.tif"
            /\ f_cycle_stack[i][2].file = "FAM.tif"
            /\ f_cycle_stack[i][3].file = "TXR.tif"
            /\ f_cycle_stack[i][4].file = "Y3.tif"
            /\ \A k \in 1..4 :
                  /\ f_cycle_stack[i][k].dir = f_cycles[i]
                  /\ f_cycle_stack[i][k].pix = DiskPix(f_cycles[i], f_cycle_stack[i][k].file)
                  /\ f_cycle_stack[i][k].file # "DAPI.tif"

C6_Witness ==
    /\ variant = "Ke"
    /\ Returned
    /\ Len(result[1]) = 2
    /\ f_std_img.file = "addWeighted"
    /\ merged_img.file = "DAPI.tif"

\* C7: in both decoders a channel that fails to load, and in decode_data_Ke
\* a registration that fails, ends the run in the cycle where it happened:
\* nothing is appended for that cycle, nothing is returned, a returned stack
\* holds only decoded images, and no load or registration is issued twice
\* for one cycle.
LoadFailed ==
    /\ imreadLog # <<>>
    /\ IF variant = "Ke"
       THEN \E c \in {channel_A, channel_T, channel_C, channel_G, channel_0} : c.kind = "none"
       ELSE channel_0.kind = "none"

C7_FailureAbortsRun ==
    /\ LoadFailed =>
          /\ pc \in (IF variant = "Ke"
                     THEN {"Ke_merge", "Ke_register", "Ke_debug", "Ke_align", "raised"}
                     ELSE {"Chen_merge", "Chen_debug", "raised"})
          /\ Len(f_cycle_stack) = cycle_id
          /\ result = <<>>
    /\ \A i \in 1..Len(regLog) :
          regLog[i].outcome = "fail" => (i = Len(regLog) /\ pc = "raised" /\ result = <<>>)
    /\ \A i, j \in 1..Len(regLog) : i < j => regLog[i].cycle < regLog[j].cycle
    /\ Len(imreadLog) <= (IF variant = "Ke" THEN 5 ELSE 1) * (cycle_id + 1)
    /\ Returned =>
          /\ Len(result[1]) = Len(f_cycles)
          /\ \A i \in 1..Len(result[1]) :
                \A k \in 1..Len(result[1][i]) : result[1][i][k].kind = "img"
          /\ result[2].kind = "img"

C7_Witness ==
    /\ variant = "Chen"
    /\ LoadFailed
    /\ pc = "raised"
    /\ cycle_id = 1
    /\ Len(f_cycle_stack) = 1

\* C8: decode_data_Chen, when it returns, hands back the stack
\* [[c_0], ..., [c_{n-1}]] of the decoded STORM.tif images, untouched, and
\* c_0 as the composite; it never calls register_cycles or warpAffine.
C8_ChenStackUnchanged ==
    variant = "Chen" =>
        /\ regLog = <<>>
        /\ warpLog = <<>>
        /\ Returned =>
              /\ result[1] = [i \in 1..Len(f_cycles) |-> <<Loaded(f_cycles[i], "STORM.tif")>>]
              /\ result[2] = Loaded(f_cycles[1], "STORM.tif")

C8_Witness ==
    /\ variant = "Chen"
    /\ Returned
    /\ Len(f_cycles) = 2
    /\ f_cycles[1] # f_cycles[2]

\* C9: a diagnostic imwrite that answers "not written" does not end the run:
\* the next block of the cycle runs, every cycle gets its write, and the
\* returned pair is the one fixed by the cycle list and the transforms,
\* whatever the writes answered.
ExpectedStack ==
    IF variant = "Ke"
    THEN [i \in 1..Len(f_cycles) |->
            [k \in 1..4 |->
                LET file == <<"Y5.tif", "FAM.tif", "TXR.tif", "Y3.tif">>[k]
                IN  Image(f_cycles[i], file, DiskShape(f_cycles[1]),
                          DiskPix(f_cycles[i], file), regLog[i].outcome)]]
    ELSE [i \in 1..Len(f_cycles) |-> <<Loaded(f_cycles[i], "STORM.tif")>>]

C9_ResultIgnoresWrites ==
    Returned =>
        /\ Len(imwriteLog) = Len(f_cycles)
        /\ \A i \in 1..Len(imwriteLog) : imwriteLog[i].cycle = i - 1
        /\ result[1] = ExpectedStack

C9_FailedWriteGoesOn ==
    (/\ Len(imwriteLog') = Len(imwriteLog) + 1
     /\ Last(imwriteLog').answer = "false")
        => /\ pc' \in {"Ke_align", "Chen_append"}
           /\ f_cycle_stack' = f_cycle_stack
           /\ f_std_img' = f_std_img

\* C9: both parts together: the returned pair never depends on what the
\* diagnostic writes answered, and a write answering "not written" is
\* followed by the next block of the same cycle.
C9_WriteFailureNotFatal == [](C9_ResultIgnoresWrites) /\ [][C9_FailedWriteGoesOn]_vars

C9_Witness ==
    /\ Returned
    /\ Len(f_cycles) = 2
    /\ imwriteLog[1].answer = "false"
    /\ imwriteLog[2].answer = "true"

\* C10: in both decoders the composite is assigned once, in cycle 0, from
\* cycle 0's channels (Ke: the saturated sum of the four base channels
\* weighted 0.4 plus DAPI weighted 0.6; Chen: the channel itself); it is
\* what it was after cycle 0 in every later cycle and in the returned pair.
ExpectedComposite ==
    LET dir == f_cycles[1]
    IN  IF variant = "Ke"
        THEN Image(dir, "addWeighted", DiskShape(dir),
                   (4 * Min(255, DiskPix(dir, "Y5.tif") + DiskPix(dir, "FAM.tif")
                                 + DiskPix(dir, "TXR.tif") + DiskPix(dir, "Y3.tif"))
                    + 6 * DiskPix(dir, "DAPI.tif") + 5) \div 10, "raw")
        ELSE Loaded(dir, "STORM.tif")

C10_CompositeFromCycle0 ==
    /\ stdAssigns <= 1
    /\ cycle_id > 0 => (stdAssigns = 1 /\ f_std_img = ExpectedComposite)
    /\ Returned => (stdAssigns = 1 /\ result[2] = ExpectedComposite)

C10_Witness ==
    /\ Returned
    /\ variant = "Ke"
    /\ Len(f_cycles) = 3
    /\ f_cycles[1] = "d1"
    /\ f_cycles[3] = "d2"
    /\ result[2].pix = 108

====
